---- MODULE Spec2Model ----
(***************************************************************************)
(* Model of the Speech Controller hook (src/src/hooks/useNativeTTS.ts) and *)
(* of the Voice Picker's preview (src/unnamed/part_000), running against   *)
(* the platform speech engine (window.speechSynthesis).                    *)
(*                                                                         *)
(* The engine follows the Web Speech API: speak() appends an utterance to  *)
(* the engine's queue, the head of the queue is started and later ends or  *)
(* fails, cancel() empties the queue synchronously and the error event of  *)
(* every removed utterance is delivered later, as a task of its own.       *)
(***************************************************************************)
EXTENDS Integers, Sequences, FiniteSets, TLC

\* ------------------------------------------------------------------ bounds
MaxCalls == 2

MaxPreviews == 1

MaxVoices == 3

\* ------------------------------------------------------------- characters
NL == "\n"

Whitespace == {" ", NL}

\* one character of each emoji range the sanitizer removes
Emoji == {"E"}

Star == "*"

\* the backquote character
Backquote == "bq"

HashMax == 6

\* ------------------------------------------------------------ sanitizeText
IsDelim(s, d, n, i) ==
    /\ i + n - 1 <= Len(s)
    /\ \A m \in 0..(n - 1) : s[i + m] = d

\* the closing delimiter of a lazy (.*?) group opened before position k:
\* the first position >= k holding n copies of d, with no newline before it
\* (0: none)
RECURSIVE FindClose(_, _, _, _)
FindClose(s, d, n, k) ==
    IF k + n - 1 > Len(s) THEN 0
    ELSE IF IsDelim(s, d, n, k) THEN k
    ELSE IF s[k] = NL THEN 0
    ELSE FindClose(s, d, n, k + 1)

\* s.replace(/D(.*?)D/g, '$1') for the delimiter D of n copies of d
RECURSIVE StripPairFrom(_, _, _, _)
StripPairFrom(s, d, n, i) ==
    IF i > Len(s) THEN <<>>
    ELSE IF IsDelim(s, d, n, i) /\ FindClose(s, d, n, i + n) # 0
         THEN LET k == FindClose(s, d, n, i + n)
              IN  SubSeq(s, i + n, k - 1) \o StripPairFrom(s, d, n, k + n)
         ELSE <<s[i]>> \o StripPairFrom(s, d, n, i + 1)

StripPair(s, d, n) == StripPairFrom(s, d, n, 1)

\* the lengths k in 1..6 for which #{k}\s matches at position i
HashMatches(s, i) ==
    { k \in 1..HashMax :
        /\ i + k <= Len(s)
        /\ \A m \in 0..(k - 1) : s[i + m] = "#"
        /\ s[i + k] \in Whitespace }

SetMax(S) == CHOOSE x \in S : \A y \in S : y <= x

\* s.replace(/#{1,6}\s/g, '')
RECURSIVE StripHeadingsFrom(_, _)
StripHeadingsFrom(s, i) ==
    IF i > Len(s) THEN <<>>
    ELSE IF HashMatches(s, i) # {}
         THEN StripHeadingsFrom(s, i + SetMax(HashMatches(s, i)) + 1)
         ELSE <<s[i]>> \o StripHeadingsFrom(s, i + 1)

StripHeadings(s) == StripHeadingsFrom(s, 1)

\* s.replace(/C+/g, rep) for the character class C
RECURSIVE CollapseFrom(_, _, _, _)
CollapseFrom(s, C, rep, i) ==
    IF i > Len(s) THEN <<>>
    ELSE IF s[i] \in C
         THEN IF i > 1 /\ s[i - 1] \in C
              THEN CollapseFrom(s, C, rep, i + 1)
              ELSE rep \o CollapseFrom(s, C, rep, i + 1)
         ELSE <<s[i]>> \o CollapseFrom(s, C, rep, i + 1)

Collapse(s, C, rep) == CollapseFrom(s, C, rep, 1)

RECURSIVE TrimStart(_)
TrimStart(s) ==
    IF s # <<>> /\ Head(s) \in Whitespace THEN TrimStart(Tail(s)) ELSE s

RECURSIVE TrimEnd(_)
TrimEnd(s) ==
    IF s # <<>> /\ s[Len(s)] \in Whitespace
    THEN TrimEnd(SubSeq(s, 1, Len(s) - 1))
    ELSE s

Trim(s) == TrimEnd(TrimStart(s))

StripEmoji(s) == SelectSeq(s, LAMBDA ch : ch \notin Emoji)

sanitizeText(text) ==
    LET noEmoji  == StripEmoji(text)
        noBold   == StripPair(noEmoji, Star, 2)
        noItalic == StripPair(noBold, Star, 1)
        noCode   == StripPair(noItalic, Backquote, 1)
        noHead   == StripHeadings(noCode)
        breaks   == Collapse(noHead, {NL}, <<".", " ">>)
        spaces   == Collapse(breaks, Whitespace, <<" ">>)
    IN  Trim(spaces)

\* ------------------------------------------------------------------ voices
\* language tags, as the characters String.startsWith reads
HI_IN == <<"h", "i", "-", "I", "N">>

EN_IN == <<"e", "n", "-", "I", "N">>

EN_US == <<"e", "n", "-", "U", "S">>

EN_GB == <<"e", "n", "-", "G", "B">>

FR_FR == <<"f", "r", "-", "F", "R">>

HI == <<"h", "i">>

Langs == {HI_IN, EN_IN, EN_US, FR_FR, HI}

\* String.prototype.startsWith
StartsWith(s, prefix) ==
    /\ Len(prefix) <= Len(s)
    /\ SubSeq(s, 1, Len(prefix)) = prefix

\* a voice of the platform's catalog: its name is unique in the catalog
\* (here its position), its language tag is any
Voice(n, lang) == [name |-> n, lang |-> lang]

\* null, where the code holds a voice
NoVoice == Voice(0, <<>>)

\* the catalogs of exactly n voices
CatalogsOfLen(n) ==
    { [i \in 1..n |-> Voice(i, f[i])] : f \in [1..n -> Langs] }

AllCatalogs == UNION { CatalogsOfLen(n) : n \in 0..MaxVoices }

\* the catalogs the platform moves between while the controller runs
Catalogs ==
    { <<>>,
      <<Voice(1, EN_US), Voice(2, EN_IN), Voice(3, HI_IN)>>,
      <<Voice(1, FR_FR), Voice(2, EN_GB)>> }

\* Array.prototype.find: the first element whose test (tests[i], the value
\* of the callback on voices[i]) is true, or null
Find(voices, tests) ==
    IF \E i \in 1..Len(voices) : tests[i]
    THEN voices[CHOOSE i \in 1..Len(voices) :
                    /\ tests[i]
                    /\ \A j \in 1..(i - 1) : ~tests[j]]
    ELSE NoVoice

\* the values of v => v.lang === lang, of v => v.lang.startsWith(prefix) and
\* of v => v.name === name on the voices of a list
LangIs(voices, lang) == [i \in 1..Len(voices) |-> voices[i].lang = lang]

LangStartsWith(voices, prefix) ==
    [i \in 1..Len(voices) |-> StartsWith(voices[i].lang, prefix)]

NameIs(voices, name) == [i \in 1..Len(voices) |-> voices[i].name = name]

\* the list getBestVoice reads: the cached list of the render that created
\* the callback, or the platform's list when the cache is empty
VoicesRead(cached, platform) ==
    IF Len(cached) > 0 THEN cached ELSE platform

\* getBestVoice with Indian English tried before Hindi
getBestVoiceEnglishFirst(voices) ==
    IF Len(voices) = 0 THEN NoVoice
    ELSE LET hindiVoice    == Find(voices, LangIs(voices, HI_IN))
             indianEnglish == Find(voices, LangIs(voices, EN_IN))
             englishVoice  == Find(voices, LangStartsWith(voices, <<"e", "n">>))
         IN  IF indianEnglish # NoVoice THEN indianEnglish
             ELSE IF hindiVoice # NoVoice THEN hindiVoice
             ELSE IF englishVoice # NoVoice THEN englishVoice
             ELSE voices[1]

getBestVoice(voices) ==
    IF Len(voices) = 0 THEN NoVoice
    ELSE LET hindiVoice    == Find(voices, LangIs(voices, HI_IN))
             indianEnglish == Find(voices, LangIs(voices, EN_IN))
             englishVoice  == Find(voices, LangStartsWith(voices, <<"e", "n">>))
         IN  IF hindiVoice # NoVoice THEN hindiVoice
             ELSE IF indianEnglish # NoVoice THEN indianEnglish
             ELSE IF englishVoice # NoVoice THEN englishVoice
             ELSE voices[1]

\* the voice and the language tag speak() binds to the utterance
UtteranceVoice(voices) ==
    LET voice == getBestVoice(voices)
    IN  IF voice # NoVoice
        THEN [voice |-> voice, lang |-> voice.lang]
        ELSE [voice |-> NoVoice, lang |-> HI_IN]

\* a reordering whose third group takes every English voice
sortedVoicesAllEnglish(voices) ==
    LET hindiVoices   == SelectSeq(voices, LAMBDA v : StartsWith(v.lang, <<"h", "i">>))
        indianEnglish == SelectSeq(voices, LAMBDA v : v.lang = EN_IN)
        otherEnglish  == SelectSeq(voices, LAMBDA v : StartsWith(v.lang, <<"e", "n">>))
    IN  hindiVoices \o indianEnglish \o otherEnglish

\* the Voice Picker's reordered catalog
sortedVoices(voices) ==
    LET hindiVoices   == SelectSeq(voices, LAMBDA v : StartsWith(v.lang, <<"h", "i">>))
        indianEnglish == SelectSeq(voices, LAMBDA v : v.lang = EN_IN)
        otherEnglish  == SelectSeq(voices, LAMBDA v :
                             StartsWith(v.lang, <<"e", "n">>) /\ v.lang # EN_IN)
    IN  hindiVoices \o indianEnglish \o otherEnglish

\* if (sortedVoices.length === 0) return null: the picker renders something
VoiceSelectorRenders(voices) == Len(sortedVoices(voices)) # 0

Range(s) == { s[i] : i \in 1..Len(s) }

\* ------------------------------------------------------------------- state
VARIABLES
    phase,            \* "init": rendered, effect not run yet; "mounted";
                      \* "unmounted": the cleanup of the effect has run
    hasSynth,         \* 'speechSynthesis' in window
    isSupported,      \* useState(false)
    isSpeaking,       \* useState(false)
    availableVoices,  \* useState([])
    utteranceRef,     \* useRef(null): 0, or the speak() call of the utterance
    platformVoices,   \* what speechSynthesis.getVoices() returns now
    ncalls,           \* the speak() calls made so far
    call,             \* per speak() call: its promise, continuation, utterance
    queue,            \* the engine's utterance queue, head first
    engStarted,       \* the head of the queue is being spoken
    pendingErr,       \* cancelled utterances whose error event is not yet delivered
    timers,           \* the speak() calls whose keep-alive interval is armed
    voicesProp,       \* the Voice Picker's voices: the page passes the catalog
    selectedVoice,    \* the Voice Picker's selectedVoice, a voice name (0: null)
    isPreviewing,     \* the Voice Picker's useState(false)
    npreviews,        \* the preview utterances created so far
    lastText,         \* history: the text of the latest speak() call
    stopped,          \* history: stop() was called with a speak() call in flight,
                      \* and speak() was not called since
    lastTick,         \* history: the timer of the latest keep-alive tick, and
                      \* whether that tick issued pause/resume
    students,         \* the Expiry Widget's students prop
    now,              \* the clock when the Expiry Widget renders
    daysThreshold,    \* the Expiry Widget's daysThreshold prop
    view,             \* what the Expiry Widget rendered
    sanText,          \* a text, and what the passes of sanitizeText made of it
    sanPasses         \* the passes of sanitizeText over sanText so far

vars == <<phase, hasSynth, isSupported, isSpeaking, availableVoices,
          utteranceRef, platformVoices, ncalls, call, queue, engStarted,
          pendingErr, timers, voicesProp, selectedVoice, isPreviewing,
          npreviews, lastText, stopped, lastTick, students, now,
          daysThreshold, view, sanText, sanPasses>>

controllerVars == <<isSupported, isSpeaking, availableVoices, utteranceRef>>

engineVars == <<queue, engStarted, pendingErr>>

pickerVars == <<voicesProp, selectedVoice, isPreviewing, npreviews>>

historyVars == <<lastText, stopped, lastTick>>

widgetVars == <<students, now, daysThreshold, view>>

sanitizerVars == <<sanText, sanPasses>>

\* what the Speech Controller and the Voice Picker leave alone
pageVars == <<widgetVars, sanitizerVars>>

Calls == 1..MaxCalls

\* the utterance a speak() call builds, and the k-th preview utterance
SpeakUtt(c) == <<"speak", c>>

PreviewUtt(k) == <<"preview", k>>

\* a speak() call that was not made yet
NoCall ==
    [st |-> "none", resolves |-> 0, rejects |-> 0, voices |-> <<>>,
     voice |-> NoVoice, lang |-> <<>>]

NoTick == [by |-> 0, cycled |-> FALSE]

\* the texts speak() is called with: one that stays non-empty, and two
\* that sanitize to the empty string
SpeakTexts ==
    { <<"H", "i">>, <<Star, Star>>, <<"E", " ", NL>> }

\* ------------------------------------------------------ the Expiry Widget
\* Times are whole ticks of the clock, and a day has TicksPerDay of them
\* (the code's clock ticks in milliseconds, 1000 * 60 * 60 * 24 to the day).
TicksPerDay == 2

\* the latest tick at which the widget renders
MaxNow == 2

\* the clock may advance by up to MaxSkew ticks between two reads of it
MaxSkew == 1

\* the longest list of students
MaxStudents == 6

\* daysThreshold = 7
DefaultDaysThreshold == 7

\* expiringStudents.slice(0, 5), and expiringStudents.length > 5
DisplayCap == 5

\* end_date: null
NoDate == 0

\* student.subscriptions?.[0] of a student without a subscription
NoSubscription == [plan |-> "none", end_date |-> NoDate]

Subscription(plan, end_date) == [plan |-> plan, end_date |-> end_date]

Student(id, subscriptions) == [id |-> id, subscriptions |-> subscriptions]

\* student.subscriptions?.[0]
FirstSubscription(student) ==
    IF Len(student.subscriptions) = 0
    THEN NoSubscription
    ELSE student.subscriptions[1]

\* Date.prototype.getDate and setDate, in a month that does not end: the day
\* a time falls on, and that time moved to the same time of day of day d
getDate(t) == t \div TicksPerDay

setDate(t, d) == (d * TicksPerDay) + (t % TicksPerDay)

\* thresholdDate: a second new Date(), read at clock2, moved to the day
\* now.getDate() + daysThreshold
thresholdDate(at, clock2, days) == setDate(clock2, getDate(at) + days)

\* Math.ceil(n / d)
Ceil(n, d) == IF n % d = 0 THEN n \div d ELSE n \div d + 1

\* the callback of students.filter
IsExpiring(student, at, threshold) ==
    LET subscription == FirstSubscription(student)
    IN  /\ subscription # NoSubscription
        /\ subscription.plan = "pro"
        /\ subscription.end_date # NoDate
        /\ subscription.end_date > at
        /\ subscription.end_date <= threshold

\* the callback of .map
ExpiringEntry(student, at) ==
    LET endDate == FirstSubscription(student).end_date
    IN  [id       |-> student.id,
         endDate  |-> endDate,
         daysLeft |-> Ceil(endDate - at, TicksPerDay),
         plan     |-> FirstSubscription(student).plan]

\* .sort((a, b) => a.daysLeft - b.daysLeft): a stable sort
RECURSIVE InsertByDaysLeft(_, _)
InsertByDaysLeft(sorted, e) ==
    IF sorted = <<>>
    THEN <<e>>
    ELSE IF sorted[Len(sorted)].daysLeft <= e.daysLeft
         THEN Append(sorted, e)
         ELSE Append(InsertByDaysLeft(SubSeq(sorted, 1, Len(sorted) - 1), e),
                     sorted[Len(sorted)])

\* the entries left in the order of the students prop
SortKeepsOrder(list) == list

RECURSIVE SortByDaysLeft(_)
SortByDaysLeft(list) ==
    IF list = <<>>
    THEN <<>>
    ELSE InsertByDaysLeft(SortByDaysLeft(SubSeq(list, 1, Len(list) - 1)),
                          list[Len(list)])

\* the useMemo of expiringStudents, with new Date() read at at and at clock2
expiringStudents(list, at, clock2, days) ==
    LET threshold == thresholdDate(at, clock2, days)
        matching  == SelectSeq(list, LAMBDA st : IsExpiring(st, at, threshold))
    IN  SortByDaysLeft([i \in 1..Len(matching) |-> ExpiringEntry(matching[i], at)])

\* the variant of the badge of an entry
getUrgencyBadge(daysLeft) ==
    IF daysLeft <= 1 THEN "destructive"
    ELSE IF daysLeft <= 3 THEN "secondary"
    ELSE "outline"

urgentCount(expiring) ==
    Cardinality({ i \in 1..Len(expiring) : expiring[i].daysLeft <= 1 })

\* a count of the soon band that takes in the critical band
soonCountUpToThree(expiring) ==
    Cardinality({ i \in 1..Len(expiring) : expiring[i].daysLeft <= 3 })

soonCount(expiring) ==
    Cardinality({ i \in 1..Len(expiring) :
                    expiring[i].daysLeft > 1 /\ expiring[i].daysLeft <= 3 })

\* the widget before it rendered
NoView ==
    [rendered |-> FALSE, expiring |-> <<>>, rows |-> <<>>, viewAll |-> 0,
     urgent |-> 0, soon |-> 0]

\* what the widget renders: a row with a badge for each of the first
\* DisplayCap entries, the "View all n" control (0: none), and the counts of
\* the summary
RenderOf(list, at, clock2, days) ==
    LET expiring == expiringStudents(list, at, clock2, days)
        shown    == SubSeq(expiring, 1, IF Len(expiring) < DisplayCap
                                        THEN Len(expiring) ELSE DisplayCap)
    IN  [rendered |-> TRUE,
         expiring |-> expiring,
         rows     |-> [i \in 1..Len(shown) |->
                         [id       |-> shown[i].id,
                          daysLeft |-> shown[i].daysLeft,
                          badge    |-> getUrgencyBadge(shown[i].daysLeft)]],
         viewAll  |-> IF Len(expiring) > DisplayCap THEN Len(expiring) ELSE 0,
         urgent   |-> urgentCount(expiring),
         soon     |-> soonCount(expiring)]

\* the page without the widget
WidgetIdle ==
    /\ students = <<>>
    /\ now = 1
    /\ daysThreshold = DefaultDaysThreshold
    /\ view = NoView

\* ---------------------------------------------------- sanitizeText, applied
\* no text was sanitized
SanitizerIdle ==
    /\ sanText = <<>>
    /\ sanPasses = 0

\* the state after the first render, on a platform whose catalog is one of
\* catalogs
InitWith(catalogs) ==
    /\ phase = "init"
    /\ hasSynth \in BOOLEAN
    /\ isSupported = FALSE
    /\ isSpeaking = FALSE
    /\ availableVoices = <<>>
    /\ utteranceRef = 0
    /\ platformVoices \in (IF hasSynth THEN catalogs ELSE {<<>>})
    /\ ncalls = 0
    /\ call = [c \in Calls |-> NoCall]
    /\ queue = <<>>
    /\ engStarted = FALSE
    /\ pendingErr = {}
    /\ timers = {}
    /\ voicesProp = platformVoices
    /\ selectedVoice = getBestVoice(platformVoices).name
    /\ isPreviewing = FALSE
    /\ npreviews = 0
    /\ lastText = <<>>
    /\ stopped = FALSE
    /\ lastTick = NoTick

Init == InitWith(Catalogs) /\ WidgetIdle /\ SanitizerIdle

\* ------------------------------------------------------------ the engine
\* speechSynthesis.speaking: an utterance has begun and has not completed
EngineSpeaking == engStarted

\* speechSynthesis.cancel(): every utterance leaves the queue now, and its
\* error event ('interrupted' or 'canceled') is delivered later
CancelQueue == <<>>

CancelPending == pendingErr \cup Range(queue)

\* a speak() call whose promise is still pending after it reached the engine
\* or its settle delay
InFlight(c) ==
    /\ call[c].st \in {"delay", "submitted"}
    /\ call[c].resolves = 0

\* ------------------------------------------------------- the event handlers
\* utterance.onstart
OnStart(u) ==
    IF u[1] = "speak"
    THEN /\ isSpeaking' = TRUE
         /\ UNCHANGED isPreviewing
    ELSE /\ isPreviewing' = TRUE
         /\ UNCHANGED isSpeaking

\* utterance.onend, as assigned last
OnEnd(u) ==
    IF u[1] = "speak"
    THEN /\ timers' = timers \ {u[2]}
         /\ isSpeaking' = FALSE
         /\ utteranceRef' = 0
         /\ call' = [call EXCEPT ![u[2]].resolves = @ + 1]
         /\ UNCHANGED isPreviewing
    ELSE /\ isPreviewing' = FALSE
         /\ UNCHANGED <<timers, isSpeaking, utteranceRef, call>>

\* onerror that clears the session and leaves the promise pending
OnErrorNoResolve(u) ==
    IF u[1] = "speak"
    THEN /\ timers' = timers \ {u[2]}
         /\ isSpeaking' = FALSE
         /\ utteranceRef' = 0
         /\ UNCHANGED <<call, isPreviewing>>
    ELSE /\ isPreviewing' = FALSE
         /\ UNCHANGED <<timers, isSpeaking, utteranceRef, call>>

\* onerror that rejects the promise
OnErrorReject(u) ==
    IF u[1] = "speak"
    THEN /\ timers' = timers \ {u[2]}
         /\ isSpeaking' = FALSE
         /\ utteranceRef' = 0
         /\ call' = [call EXCEPT ![u[2]].rejects = @ + 1]
         /\ UNCHANGED isPreviewing
    ELSE /\ isPreviewing' = FALSE
         /\ UNCHANGED <<timers, isSpeaking, utteranceRef, call>>

\* utterance.onerror, as assigned last
OnError(u) ==
    IF u[1] = "speak"
    THEN /\ timers' = timers \ {u[2]}
         /\ isSpeaking' = FALSE
         /\ utteranceRef' = 0
         /\ call' = [call EXCEPT ![u[2]].resolves = @ + 1]
         /\ UNCHANGED isPreviewing
    ELSE /\ isPreviewing' = FALSE
         /\ UNCHANGED <<timers, isSpeaking, utteranceRef, call>>

\* ------------------------------------------------------------- the actions
\* the effect of the first render
Mount ==
    /\ phase = "init"
    /\ phase' = "mounted"
    /\ IF hasSynth
       THEN /\ isSupported' = TRUE
            /\ availableVoices' =
                 IF Len(platformVoices) > 0 THEN platformVoices ELSE availableVoices
       ELSE UNCHANGED <<isSupported, availableVoices>>
    /\ UNCHANGED <<hasSynth, isSpeaking, utteranceRef, platformVoices, ncalls,
                   call, timers>>
    /\ UNCHANGED <<engineVars, pickerVars, historyVars>>
    /\ UNCHANGED pageVars

\* a loadVoices that caches whatever getVoices() returns
VoicesChangedAlways(voices) ==
    /\ phase = "mounted"
    /\ hasSynth
    /\ voices # platformVoices
    /\ platformVoices' = voices
    /\ availableVoices' = voices
    /\ UNCHANGED <<phase, hasSynth, isSupported, isSpeaking, utteranceRef,
                   ncalls, call, timers>>
    /\ UNCHANGED <<engineVars, pickerVars, historyVars>>
    /\ UNCHANGED pageVars

\* the platform's catalog changes and 'voiceschanged' runs loadVoices
VoicesChanged(voices) ==
    /\ phase = "mounted"
    /\ hasSynth
    /\ voices # platformVoices
    /\ platformVoices' = voices
    /\ availableVoices' = IF Len(voices) > 0 THEN voices ELSE availableVoices
    /\ UNCHANGED <<phase, hasSynth, isSupported, isSpeaking, utteranceRef,
                   ncalls, call, timers>>
    /\ UNCHANGED <<engineVars, pickerVars, historyVars>>
    /\ UNCHANGED pageVars

\* speak() that cancels the engine before it looks at its input
SpeakCancelFirst(text) ==
    /\ phase = "mounted"
    /\ ncalls < MaxCalls
    /\ ncalls' = ncalls + 1
    /\ lastText' = text
    /\ stopped' = FALSE
    /\ IF hasSynth
       THEN /\ queue' = CancelQueue
            /\ engStarted' = FALSE
            /\ pendingErr' = CancelPending
       ELSE UNCHANGED engineVars
    /\ IF ~isSupported \/ sanitizeText(text) = <<>>
       THEN call' = [call EXCEPT ![ncalls + 1] =
                       [@ EXCEPT !.st = "noop", !.resolves = @ + 1]]
       ELSE call' = [call EXCEPT ![ncalls + 1] =
                       [@ EXCEPT !.st = "delay", !.voices = availableVoices]]
    /\ UNCHANGED <<phase, hasSynth, controllerVars, platformVoices, timers,
                   pickerVars, lastTick>>
    /\ UNCHANGED pageVars

\* speak({text}), up to the setTimeout
Speak(text) ==
    /\ phase = "mounted"
    /\ ncalls < MaxCalls
    /\ ncalls' = ncalls + 1
    /\ lastText' = text
    /\ stopped' = FALSE
    /\ IF ~isSupported \/ sanitizeText(text) = <<>>
       THEN /\ call' = [call EXCEPT ![ncalls + 1] =
                          [@ EXCEPT !.st = "noop", !.resolves = @ + 1]]
            /\ UNCHANGED engineVars
       ELSE /\ queue' = CancelQueue
            /\ engStarted' = FALSE
            /\ pendingErr' = CancelPending
            /\ call' = [call EXCEPT ![ncalls + 1] =
                          [@ EXCEPT !.st = "delay", !.voices = availableVoices]]
    /\ UNCHANGED <<phase, hasSynth, controllerVars, platformVoices, timers,
                   pickerVars, lastTick>>
    /\ UNCHANGED pageVars

\* the paths of the try block of the setTimeout callback
SettleOutcomes == {"ok", "throwNew", "throwSpeak"}

\* the setTimeout callback of call c. outcome: the try block completes, or
\* new SpeechSynthesisUtterance throws, or speechSynthesis.speak throws
Settle(c, outcome) ==
    /\ call[c].st = "delay"
    /\ LET read  == VoicesRead(call[c].voices, platformVoices)
           bound == UtteranceVoice(read)
       IN  CASE outcome = "ok" ->
                  /\ utteranceRef' = c
                  /\ isSpeaking' = TRUE
                  /\ queue' = Append(queue, SpeakUtt(c))
                  /\ timers' = timers \cup {c}
                  /\ call' = [call EXCEPT ![c] =
                                [@ EXCEPT !.st = "submitted", !.voices = read,
                                          !.voice = bound.voice, !.lang = bound.lang]]
            [] outcome = "throwNew" ->
                  /\ isSpeaking' = FALSE
                  /\ call' = [call EXCEPT ![c] =
                                [@ EXCEPT !.st = "threw", !.voices = <<>>,
                                          !.resolves = @ + 1]]
                  /\ UNCHANGED <<utteranceRef, queue, timers>>
            [] outcome = "throwSpeak" ->
                  /\ utteranceRef' = c
                  /\ isSpeaking' = FALSE
                  /\ call' = [call EXCEPT ![c] =
                                [@ EXCEPT !.st = "threw", !.voices = read,
                                          !.voice = bound.voice, !.lang = bound.lang,
                                          !.resolves = @ + 1]]
                  /\ UNCHANGED <<queue, timers>>
    /\ UNCHANGED <<phase, hasSynth, isSupported, availableVoices, platformVoices,
                   ncalls, engStarted, pendingErr, pickerVars, historyVars>>
    /\ UNCHANGED pageVars

\* the session and the engine, as stop() finds them
SessionNow ==
    [isSpeaking |-> isSpeaking, utteranceRef |-> utteranceRef, queue |-> queue,
     engStarted |-> engStarted, pendingErr |-> pendingErr]

\* a stop() that does nothing unless the session is marked speaking
StopOfIfSpeaking(s) ==
    IF ~s.isSpeaking
    THEN s
    ELSE [isSpeaking   |-> FALSE,
          utteranceRef |-> 0,
          queue        |-> IF hasSynth THEN CancelQueue ELSE s.queue,
          engStarted   |-> IF hasSynth THEN FALSE ELSE s.engStarted,
          pendingErr   |-> IF hasSynth THEN s.pendingErr \cup Range(s.queue)
                                       ELSE s.pendingErr]

\* what stop() makes of a session and engine s
StopOf(s) ==
    [isSpeaking   |-> FALSE,
     utteranceRef |-> 0,
     queue        |-> IF hasSynth THEN CancelQueue ELSE s.queue,
     engStarted   |-> IF hasSynth THEN FALSE ELSE s.engStarted,
     pendingErr   |-> IF hasSynth THEN s.pendingErr \cup Range(s.queue)
                                  ELSE s.pendingErr]

\* stop()
Stop ==
    /\ phase = "mounted"
    /\ LET after == StopOf(SessionNow)
       IN  /\ queue' = after.queue
           /\ engStarted' = after.engStarted
           /\ pendingErr' = after.pendingErr
           /\ utteranceRef' = after.utteranceRef
           /\ isSpeaking' = after.isSpeaking
    /\ stopped' = \E c \in Calls : InFlight(c)
    /\ UNCHANGED <<phase, hasSynth, isSupported, availableVoices, platformVoices,
                   ncalls, call, timers, pickerVars, lastText, lastTick>>
    /\ UNCHANGED pageVars

\* a tick that leaves the interval armed when the engine is not speaking
TickNoClear(c) ==
    /\ c \in timers
    /\ lastTick' = [by |-> c, cycled |-> EngineSpeaking]
    /\ UNCHANGED timers
    /\ UNCHANGED <<phase, hasSynth, controllerVars, platformVoices, ncalls, call,
                   engineVars, pickerVars, lastText, stopped>>
    /\ UNCHANGED pageVars

\* the callback of the setInterval of call c
Tick(c) ==
    /\ c \in timers
    /\ IF ~EngineSpeaking
       THEN /\ timers' = timers \ {c}
            /\ lastTick' = [by |-> c, cycled |-> FALSE]
       ELSE \* pause(); resume(): the engine is left as it was
            /\ lastTick' = [by |-> c, cycled |-> TRUE]
            /\ UNCHANGED timers
    /\ UNCHANGED <<phase, hasSynth, controllerVars, platformVoices, ncalls, call,
                   engineVars, pickerVars, lastText, stopped>>
    /\ UNCHANGED pageVars

\* the engine begins to speak the head of its queue
EngineStart ==
    /\ queue # <<>>
    /\ ~engStarted
    /\ engStarted' = TRUE
    /\ OnStart(Head(queue))
    /\ UNCHANGED <<phase, hasSynth, isSupported, availableVoices, utteranceRef,
                   platformVoices, ncalls, call, queue, pendingErr, timers,
                   voicesProp, selectedVoice, npreviews, historyVars>>
    /\ UNCHANGED pageVars

\* the engine finishes the utterance it is speaking
EngineEnd ==
    /\ queue # <<>>
    /\ engStarted
    /\ queue' = Tail(queue)
    /\ engStarted' = FALSE
    /\ OnEnd(Head(queue))
    /\ UNCHANGED <<phase, hasSynth, isSupported, availableVoices, platformVoices,
                   ncalls, pendingErr, voicesProp, selectedVoice, npreviews,
                   historyVars>>
    /\ UNCHANGED pageVars

\* the engine fails on the head of its queue
EngineError ==
    /\ queue # <<>>
    /\ queue' = Tail(queue)
    /\ engStarted' = FALSE
    /\ OnError(Head(queue))
    /\ UNCHANGED <<phase, hasSynth, isSupported, availableVoices, platformVoices,
                   ncalls, pendingErr, voicesProp, selectedVoice, npreviews,
                   historyVars>>
    /\ UNCHANGED pageVars

\* the error event of a cancelled utterance is delivered
DeliverError(u) ==
    /\ u \in pendingErr
    /\ pendingErr' = pendingErr \ {u}
    /\ OnError(u)
    /\ UNCHANGED <<phase, hasSynth, isSupported, availableVoices, platformVoices,
                   ncalls, queue, engStarted, voicesProp, selectedVoice, npreviews,
                   historyVars>>
    /\ UNCHANGED pageVars

\* the page passes another selectedVoice to the Voice Picker
SelectVoice(name) ==
    /\ name \in { v.name : v \in Range(voicesProp) }
    /\ name # selectedVoice
    /\ selectedVoice' = name
    /\ UNCHANGED <<phase, hasSynth, controllerVars, platformVoices, ncalls, call,
                   engineVars, timers, voicesProp, isPreviewing, npreviews,
                   historyVars>>
    /\ UNCHANGED pageVars

\* a click handler whose cancelling branch leaves isPreviewing as it is
previewVoiceKeepsFlag ==
    /\ Len(sortedVoices(voicesProp)) > 0
    /\ selectedVoice # 0
    /\ IF isPreviewing
       THEN /\ queue' = CancelQueue
            /\ engStarted' = FALSE
            /\ pendingErr' = CancelPending
            /\ UNCHANGED <<isPreviewing, npreviews>>
       ELSE LET voice == Find(sortedVoices(voicesProp),
                              NameIs(sortedVoices(voicesProp), selectedVoice))
            IN  IF voice = NoVoice
                THEN UNCHANGED <<engineVars, isPreviewing, npreviews>>
                ELSE /\ npreviews < MaxPreviews
                     /\ npreviews' = npreviews + 1
                     /\ queue' = <<PreviewUtt(npreviews + 1)>>
                     /\ engStarted' = FALSE
                     /\ pendingErr' = CancelPending
                     /\ UNCHANGED isPreviewing
    /\ UNCHANGED <<phase, hasSynth, controllerVars, platformVoices, ncalls, call,
                   timers, voicesProp, selectedVoice, historyVars>>
    /\ UNCHANGED pageVars

\* previewVoice(), the click handler of the preview button; the button is
\* rendered when sortedVoices is not empty and enabled when a voice is selected
previewVoice ==
    /\ Len(sortedVoices(voicesProp)) > 0
    /\ selectedVoice # 0
    /\ IF isPreviewing
       THEN /\ queue' = CancelQueue
            /\ engStarted' = FALSE
            /\ pendingErr' = CancelPending
            /\ isPreviewing' = FALSE
            /\ UNCHANGED npreviews
       ELSE LET voice == Find(sortedVoices(voicesProp),
                              NameIs(sortedVoices(voicesProp), selectedVoice))
            IN  IF voice = NoVoice
                THEN UNCHANGED <<engineVars, isPreviewing, npreviews>>
                ELSE /\ npreviews < MaxPreviews
                     /\ npreviews' = npreviews + 1
                     /\ queue' = <<PreviewUtt(npreviews + 1)>>
                     /\ engStarted' = FALSE
                     /\ pendingErr' = CancelPending
                     /\ UNCHANGED isPreviewing
    /\ UNCHANGED <<phase, hasSynth, controllerVars, platformVoices, ncalls, call,
                   timers, voicesProp, selectedVoice, historyVars>>
    /\ UNCHANGED pageVars

Next ==
    \/ Mount
    \/ \E text \in SpeakTexts : Speak(text)
    \/ \E c \in Calls, outcome \in SettleOutcomes : Settle(c, outcome)
    \/ Stop
    \/ \E c \in Calls : Tick(c)
    \/ EngineStart
    \/ EngineEnd
    \/ EngineError
    \/ \E u \in pendingErr : DeliverError(u)
    \/ previewVoice

Spec == Init /\ [][Next]_vars

\* every utterance there can be
AllUtts ==
    { SpeakUtt(c) : c \in Calls } \cup { PreviewUtt(k) : k \in 1..MaxPreviews }

\* The event loop runs every due timer callback and delivers every queued
\* event, and the engine goes on with the head of its queue.
FairSpec ==
    /\ Spec
    /\ \A c \in Calls : WF_vars(\E outcome \in SettleOutcomes : Settle(c, outcome))
    /\ \A u \in AllUtts : WF_vars(DeliverError(u))
    /\ WF_vars(EngineStart)
    /\ WF_vars(EngineEnd)

\* Voice selection over every catalog of up to MaxVoices voices: one speak()
\* call on each
VoiceInit == InitWith(AllCatalogs) /\ WidgetIdle /\ SanitizerIdle

VoiceNext ==
    \/ Mount
    \/ (ncalls = 0 /\ \E text \in SpeakTexts : Speak(text))
    \/ \E c \in Calls, outcome \in SettleOutcomes : Settle(c, outcome)
    \/ EngineStart
    \/ EngineEnd

VoiceSpec == VoiceInit /\ [][VoiceNext]_vars

\* ------------------------------------------ the Expiry Widget, rendered
\* every end date the widget may meet
MaxDate == MaxNow + DefaultDaysThreshold * TicksPerDay + TicksPerDay

\* the subscription lists of a student: none, or one of either plan with no
\* end date or any end date
AllKinds ==
    {<<>>} \cup { <<Subscription(plan, d)>> :
                    plan \in {"basic", "pro"}, d \in {NoDate} \cup 1..MaxDate }

\* "pro" ending in the critical, the soon and the upcoming band, and "basic"
LongKinds ==
    { <<Subscription("pro", 3)>>, <<Subscription("pro", 6)>>,
      <<Subscription("pro", 9)>>, <<Subscription("basic", 5)>> }

Thresholds == {2, DefaultDaysThreshold}

\* the students whose subscription lists are k[1], ..., k[n]; the id of a
\* student is its place
StudentsOf(k, n) == [i \in 1..n |-> Student(i, k[i])]

\* the widget is given no student or one student of any kind and a
\* threshold, or a longer list and the default threshold
WidgetInit ==
    /\ InitWith({<<>>})
    /\ ~hasSynth
    /\ SanitizerIdle
    /\ now \in 1..MaxNow
    /\ \E n \in 0..MaxStudents :
          \E k \in [1..n -> (IF n <= 1 THEN AllKinds ELSE LongKinds)] :
              /\ students = StudentsOf(k, n)
              /\ daysThreshold \in
                   (IF n <= 1 THEN Thresholds ELSE {DefaultDaysThreshold})
    /\ view = NoView

\* the widget renders; the second new Date() reads the clock skew ticks
\* after the first
RenderWidget(skew) ==
    /\ ~view.rendered
    /\ view' = RenderOf(students, now, now + skew, daysThreshold)
    /\ UNCHANGED <<students, now, daysThreshold, sanitizerVars>>
    /\ UNCHANGED <<phase, hasSynth, controllerVars, platformVoices, ncalls, call,
                   engineVars, timers, pickerVars, historyVars>>

WidgetNext == \E skew \in 0..MaxSkew : RenderWidget(skew)

WidgetSpec == WidgetInit /\ [][WidgetNext]_vars

\* ------------------------------------------------- the Voice Picker alone
\* the picker over every catalog of up to MaxVoices voices; only the picker
\* uses the engine
PickerInit ==
    /\ InitWith(AllCatalogs)
    /\ hasSynth
    /\ WidgetIdle
    /\ SanitizerIdle

PickerNext ==
    \/ \E name \in 1..MaxVoices : SelectVoice(name)
    \/ previewVoice
    \/ EngineStart
    \/ EngineEnd
    \/ EngineError
    \/ \E u \in pendingErr : DeliverError(u)

PickerSpec == PickerInit /\ [][PickerNext]_vars

\* ------------------------------------------------- sanitizeText, repeated
\* the longest text, and the passes of sanitizeText over one text
MaxTextLen == 4

MaxPasses == 2

\* a letter, the markers, the blanks, an emoji and the full stop
Alphabet == {"a", Star, Backquote, "#", " ", NL, "E", "."}

SanitizerInit ==
    /\ InitWith({<<>>})
    /\ ~hasSynth
    /\ WidgetIdle
    /\ \E n \in 0..MaxTextLen : sanText \in [1..n -> Alphabet]
    /\ sanPasses = 0

\* sanitizeText is given what it, or the caller, produced
Sanitize ==
    /\ sanPasses < MaxPasses
    /\ sanText' = sanitizeText(sanText)
    /\ sanPasses' = sanPasses + 1
    /\ UNCHANGED widgetVars
    /\ UNCHANGED <<phase, hasSynth, controllerVars, platformVoices, ncalls, call,
                   engineVars, timers, pickerVars, historyVars>>

SanitizerNext == Sanitize

SanitizerSpec == SanitizerInit /\ [][SanitizerNext]_vars

\* ------------------------------------------- the catalog changes under way
\* the controller while the platform moves between the catalogs
CatalogNext ==
    \/ Mount
    \/ \E voices \in Catalogs : VoicesChanged(voices)
    \/ \E text \in SpeakTexts : Speak(text)
    \/ \E c \in Calls, outcome \in SettleOutcomes : Settle(c, outcome)
    \/ EngineStart
    \/ EngineEnd

CatalogSpec == Init /\ [][CatalogNext]_vars

\* ---------------------------------------------------------- the unmount
\* the cleanup of the effect, which the effect returns when it found the
\* engine: speechSynthesis.cancel()
Unmount ==
    /\ phase = "mounted"
    /\ phase' = "unmounted"
    /\ IF hasSynth
       THEN /\ queue' = CancelQueue
            /\ engStarted' = FALSE
            /\ pendingErr' = CancelPending
       ELSE UNCHANGED engineVars
    /\ UNCHANGED <<hasSynth, controllerVars, platformVoices, ncalls, call,
                   timers, pickerVars, historyVars>>
    /\ UNCHANGED pageVars

\* the component is unmounted at any time; timers and events that were
\* scheduled still run
LifeNext ==
    \/ Next
    \/ Unmount

LifeSpec == Init /\ [][LifeNext]_vars

\* ------------------------------------------------------------------ claims
\* C1: every speak() call's completion signal is resolved exactly once:
\* resolve() never runs twice for a call, and every call that was made is
\* eventually resolved, whatever speak(), stop(), preview and engine events
\* follow it.
C1_ResolvedExactlyOnce ==
    /\ [](\A c \in Calls : call[c].resolves <= 1)
    /\ \A c \in Calls : (ncalls >= c) ~> (call[c].resolves = 1)

\* C1 witness: the first call reached the engine, was superseded by a second
\* call and is resolved, while the second is still in flight
C1_Witness ==
    /\ call[1].st = "submitted"
    /\ call[1].resolves = 1
    /\ InFlight(2)

\* C2: once a later speak() call has passed its checks and cancelled the
\* engine, the utterance of no earlier call is spoken or queued in the engine.
C2_EarlierUtteranceCancelled ==
    \A c, d \in Calls :
        (c < d /\ call[d].st \in {"delay", "submitted", "threw"})
            => SpeakUtt(c) \notin Range(queue)

\* C3: from a stop() with a speak() call in flight until the next speak()
\* call, the session is not-speaking and the engine holds no utterance of a
\* speak() call.
C3_StopSilencesUntilNextSpeak ==
    stopped =>
        /\ ~isSpeaking
        /\ \A c \in Calls : SpeakUtt(c) \notin Range(queue)

\* C4: in the state where the signal of a call that passed the checks
\* resolves (by end, error or caught exception), is-speaking is false and the
\* active-utterance reference is cleared.
C4_ResolvedMeansCleared ==
    [][\A c \in Calls :
          (call[c].st # "none" /\ call'[c].resolves > call[c].resolves)
              => (~isSpeaking' /\ utteranceRef' = 0)]_vars

\* C5: once the utterance of a later call is the active one, the end/error
\* callbacks of an earlier call change neither is-speaking nor the
\* active-utterance reference, and the keep-alive timer of a call issues
\* pause/resume only on its own utterance.
C5_SupersededHasNoSideEffects ==
    [][/\ \A c \in Calls :
            (/\ call[c].st = "submitted"
             /\ call'[c].resolves > call[c].resolves
             /\ utteranceRef > c)
                => UNCHANGED <<isSpeaking, utteranceRef>>
       /\ (lastTick' # lastTick /\ lastTick'.cycled)
            => (queue # <<>> /\ Head(queue) = SpeakUtt(lastTick'.by))]_vars

\* C6: at most one keep-alive timer is armed, and only while the utterance of
\* the call that armed it is the one at the head of the engine.
C6_TimerWithinSession ==
    /\ Cardinality(timers) <= 1
    /\ \A c \in timers : queue # <<>> /\ Head(queue) = SpeakUtt(c)

\* C7: a tick issues pause/resume only if the engine reports speaking at that
\* tick, and a timer whose tick saw the engine not speaking is cleared by
\* that tick and stays cleared.
C7_KeepAliveStopsWhenIdle ==
    /\ []((lastTick.by # 0 /\ ~lastTick.cycled) => lastTick.by \notin timers)
    /\ [][(lastTick' # lastTick /\ lastTick'.cycled) => EngineSpeaking]_vars

\* C7 witness: the timer of the first call saw the engine idle and was
\* cleared, and the engine is now speaking the utterance of the second call
C7_Witness ==
    /\ lastTick = [by |-> 1, cycled |-> FALSE]
    /\ 1 \notin timers
    /\ engStarted
    /\ Head(queue) = SpeakUtt(2)

\* C8: no speak() call is ever rejected, every call that ends without the
\* engine (no-op or caught exception) is resolved, and the step in which the
\* end or error event of a submitted call is handled leaves the session
\* not-speaking with no active utterance.
C8_NeverRejects ==
    /\ [](\A c \in Calls :
            /\ call[c].rejects = 0
            /\ call[c].st \in {"noop", "threw"} => call[c].resolves = 1)
    /\ [][\A c \in Calls :
            (/\ call[c].st = "submitted"
             /\ call'[c] # call[c])
                => (/\ call'[c].resolves = 1
                    /\ ~isSpeaking'
                    /\ utteranceRef' = 0)]_vars

\* C8 witness: the error event of a cancelled utterance was delivered while a
\* later call waits, and the session is clear
C8_Witness ==
    /\ call[1].st = "submitted"
    /\ call[1].resolves = 1
    /\ SpeakUtt(1) \notin pendingErr \cup Range(queue)
    /\ call[2].st = "threw"
    /\ ~isSpeaking

\* C9: a speak() call made when the capability is absent or the sanitized
\* text is empty resolves at once and changes neither the engine, nor the
\* timers, nor is-speaking, nor the active-utterance reference, and schedules
\* no continuation.
C9_NoopLeavesEverything ==
    [][(/\ ncalls' = ncalls + 1
        /\ (~isSupported \/ sanitizeText(lastText') = <<>>))
          => (/\ UNCHANGED <<queue, engStarted, pendingErr, timers,
                             isSpeaking, utteranceRef>>
              /\ call'[ncalls'].st = "noop"
              /\ call'[ncalls'].resolves = 1)]_vars

\* C9 witness: a no-op call was made while the utterance of the first call is
\* being spoken, and it still is
C9_Witness ==
    /\ call[2].st = "noop"
    /\ queue = <<SpeakUtt(1)>>
    /\ engStarted
    /\ isSpeaking
    /\ utteranceRef = 1

\* the positions of the voices of vs tagged exactly hi-IN, exactly en-IN,
\* and with a tag that begins with "en"
HindiAt(vs) == { i \in 1..Len(vs) : vs[i].lang = <<"h", "i", "-", "I", "N">> }

IndianEnglishAt(vs) == { i \in 1..Len(vs) : vs[i].lang = <<"e", "n", "-", "I", "N">> }

EnglishAt(vs) ==
    { i \in 1..Len(vs) :
        Len(vs[i].lang) >= 2 /\ vs[i].lang[1] = "e" /\ vs[i].lang[2] = "n" }

\* v is the voice of vs at the least position of the set at
IsFirstAt(vs, at, v) == \E i \in at : v = vs[i] /\ \A j \in at : i <= j

\* C10: the voice bound to an utterance is the first hi-IN voice of the list
\* read, else the first en-IN, else the first whose tag starts with "en",
\* else the first voice; with an empty list no voice is bound and the tag is
\* hi-IN; a bound voice gives the utterance its tag.
C10_VoicePriority ==
    \A c \in Calls :
        call[c].st = "submitted" =>
            LET vs == call[c].voices
                v  == call[c].voice
            IN  /\ HindiAt(vs) # {} => IsFirstAt(vs, HindiAt(vs), v)
                /\ (HindiAt(vs) = {} /\ IndianEnglishAt(vs) # {})
                     => IsFirstAt(vs, IndianEnglishAt(vs), v)
                /\ (HindiAt(vs) = {} /\ IndianEnglishAt(vs) = {} /\ EnglishAt(vs) # {})
                     => IsFirstAt(vs, EnglishAt(vs), v)
                /\ (HindiAt(vs) = {} /\ EnglishAt(vs) = {} /\ Len(vs) > 0)
                     => v = vs[1]
                /\ Len(vs) = 0 => (v = NoVoice /\ call[c].lang = HI_IN)
                /\ v # NoVoice => call[c].lang = v.lang

\* C10 witness: the list [en-US, en-IN, hi-IN] was read and the third voice
\* is bound
C10_Witness ==
    /\ call[1].st = "submitted"
    /\ call[1].voices = <<Voice(1, EN_US), Voice(2, EN_IN), Voice(3, HI_IN)>>
    /\ call[1].voice = Voice(3, HI_IN)
    /\ call[1].lang = HI_IN

\* a student of the widget's list is among the entries of expiringStudents
IsListed(i) == \E k \in 1..Len(view.expiring) : view.expiring[k].id = i

\* C11: the widget lists a student if and only if the student has a
\* subscription, its plan is "pro", its end date is set, and the end date is
\* strictly after now and at or before now plus the threshold in days.
C11_FilterRule ==
    view.rendered =>
        \A i \in 1..Len(students) :
            IsListed(i) <=>
                /\ Len(students[i].subscriptions) > 0
                /\ students[i].subscriptions[1].plan = "pro"
                /\ students[i].subscriptions[1].end_date # NoDate
                /\ students[i].subscriptions[1].end_date > now
                /\ students[i].subscriptions[1].end_date
                     <= now + daysThreshold * TicksPerDay

\* d is the number of days left to the end date of student i: the end date
\* minus now in days, rounded up
IsDaysLeft(i, d) ==
    LET left == students[i].subscriptions[1].end_date - now
    IN  d * TicksPerDay >= left /\ (d - 1) * TicksPerDay < left

\* C12: the widget renders the min(5, n) most urgent of the n matching
\* students in ascending order of days left, days left being the end date
\* minus now in days rounded up; it shows the view-all control, with the
\* count n, exactly when n > 5; and no rendered entry has more days left than
\* a matching entry that is not rendered.
C12_FiveMostUrgent ==
    view.rendered =>
        LET n == Len(view.expiring)
            shownIds == { view.rows[i].id : i \in 1..Len(view.rows) }
        IN  /\ Len(view.rows) = (IF n < 5 THEN n ELSE 5)
            /\ Cardinality(shownIds) = Len(view.rows)
            /\ \A i \in 1..Len(view.rows) :
                  /\ IsListed(view.rows[i].id)
                  /\ IsDaysLeft(view.rows[i].id, view.rows[i].daysLeft)
            /\ \A i, j \in 1..Len(view.rows) :
                  i < j => view.rows[i].daysLeft <= view.rows[j].daysLeft
            /\ view.viewAll = (IF n > 5 THEN n ELSE 0)
            /\ \A i \in 1..Len(view.rows), k \in 1..n :
                  view.expiring[k].id \notin shownIds
                      => \E d \in view.rows[i].daysLeft..MaxDate :
                            IsDaysLeft(view.expiring[k].id, d)

\* C12 witness: six students match, five are rendered, the view-all control
\* shows 6, and the first row is not the first student of the list
C12_Witness ==
    /\ view.rendered
    /\ Len(view.expiring) = 6
    /\ Len(view.rows) = 5
    /\ view.viewAll = 6
    /\ view.rows[1].id # 1
    /\ view.rows[1].daysLeft < view.rows[5].daysLeft

\* the band of an entry with d days left
BandOf(d) ==
    IF d <= 1 THEN "critical" ELSE IF d <= 3 THEN "soon" ELSE "upcoming"

\* the badge that shows a band
BadgeOf(band) ==
    CASE band = "critical" -> "destructive"
      [] band = "soon"     -> "secondary"
      [] band = "upcoming" -> "outline"

\* the matching students of a band
InBand(band) ==
    { k \in 1..Len(view.expiring) :
        \E d \in 0..MaxDate :
            IsDaysLeft(view.expiring[k].id, d) /\ BandOf(d) = band }

\* C13: every matching student is in one band (critical: at most 1 day left,
\* soon: more than 1 and at most 3, upcoming: more), the badge of a rendered
\* entry shows its band, and the critical and soon counts of the summary are
\* the numbers of matching students in those bands, rendered or not.
C13_BandsAgree ==
    view.rendered =>
        /\ InBand("critical") \cup InBand("soon") \cup InBand("upcoming")
             = 1..Len(view.expiring)
        /\ \A i \in 1..Len(view.rows) :
              view.rows[i].badge = BadgeOf(BandOf(view.rows[i].daysLeft))
        /\ view.urgent = Cardinality(InBand("critical"))
        /\ view.soon = Cardinality(InBand("soon"))

\* C13 witness: three critical and three soon students match, so one of the
\* soon students is counted and not rendered
C13_Witness ==
    /\ view.rendered
    /\ Len(view.expiring) = 6
    /\ view.urgent = 3
    /\ view.soon = 3
    /\ view.rows[5].badge = "secondary"

\* the engine is speaking a preview utterance
SpeakingPreview ==
    /\ queue # <<>>
    /\ Head(queue)[1] = "preview"
    /\ engStarted

\* C14: a preview invoked while is-previewing is set cancels the engine,
\* starts no new preview and clears the flag; the flag is set when a preview
\* utterance starts and cleared when it ends or errors; and, whatever preview
\* invocations and engine events have happened, the flag is set only while
\* the engine is speaking a preview utterance.
C14_PreviewToggle ==
    /\ [](isPreviewing => SpeakingPreview)
    /\ [][/\ (/\ isPreviewing
              /\ \/ (pendingErr' # pendingErr /\ pendingErr \subseteq pendingErr')
                 \/ npreviews' # npreviews)
                => (queue' = <<>> /\ ~isPreviewing' /\ npreviews' = npreviews)
          /\ (~SpeakingPreview /\ SpeakingPreview') => isPreviewing'
          /\ (SpeakingPreview /\ ~SpeakingPreview') => ~isPreviewing']_vars

\* C14 witness: the preview was started, was heard, and was cancelled by a
\* second click of the button; its error event is still to come
C14_Witness ==
    /\ npreviews = 1
    /\ ~isPreviewing
    /\ queue = <<>>
    /\ PreviewUtt(1) \in pendingErr

\* the places of voices whose tag begins with "hi", is en-IN, and begins
\* with "en" without being en-IN
HindiGroup(vs) ==
    { i \in 1..Len(vs) :
        Len(vs[i].lang) >= 2 /\ vs[i].lang[1] = "h" /\ vs[i].lang[2] = "i" }

OtherEnglishGroup(vs) == EnglishAt(vs) \ IndianEnglishAt(vs)

\* the group of place i: 1, 2, 3, or 0 when it is in none
GroupOf(vs, i) ==
    IF i \in HindiGroup(vs) THEN 1
    ELSE IF i \in IndianEnglishAt(vs) THEN 2
    ELSE IF i \in OtherEnglishGroup(vs) THEN 3
    ELSE 0

\* C15: the reordered catalog lists the Hindi-tagged voices, then the en-IN
\* voices, then the other English-tagged voices; a voice outside the groups
\* is left out, a voice inside appears exactly once, the platform's order is
\* kept within a group, and the picker renders nothing exactly when the
\* reordered catalog is empty.
C15_GroupedCatalog ==
    LET vs == voicesProp
        s  == sortedVoices(vs)
        placeOf(k) == CHOOSE i \in 1..Len(vs) : vs[i] = s[k]
    IN  /\ \A k \in 1..Len(s) : \E i \in 1..Len(vs) : vs[i] = s[k]
        /\ \A i \in 1..Len(vs) :
              Cardinality({ k \in 1..Len(s) : s[k] = vs[i] })
                  = (IF GroupOf(vs, i) = 0 THEN 0 ELSE 1)
        /\ \A k, l \in 1..Len(s) :
              k < l =>
                  \/ GroupOf(vs, placeOf(k)) < GroupOf(vs, placeOf(l))
                  \/ /\ GroupOf(vs, placeOf(k)) = GroupOf(vs, placeOf(l))
                     /\ placeOf(k) < placeOf(l)
        /\ VoiceSelectorRenders(vs) <=> (\E i \in 1..Len(vs) : GroupOf(vs, i) # 0)
        /\ ~VoiceSelectorRenders(vs) => npreviews = 0

\* C15 witness: the catalog [en-US, en-IN, hi-IN] is shown in the opposite
\* order, and its first voice was previewed
C15_Witness ==
    /\ voicesProp = <<Voice(1, EN_US), Voice(2, EN_IN), Voice(3, HI_IN)>>
    /\ sortedVoices(voicesProp) = <<Voice(3, HI_IN), Voice(2, EN_IN), Voice(1, EN_US)>>
    /\ npreviews = 1

\* C16: sanitizing is idempotent: a pass of sanitizeText over a text that is
\* itself the result of a pass leaves the text as it is.
C16_SanitizeIdempotent ==
    [][sanPasses >= 1 => sanText' = sanText]_vars

\* no speak() call is in flight and the engine holds no utterance
NothingInFlight ==
    /\ \A c \in Calls : ~InFlight(c)
    /\ queue = <<>>

\* what the page can see of a session and engine s: the flag the hook
\* returns, and the engine
Observable(s) == <<s.isSpeaking, s.queue, s.engStarted, s.pendingErr>>

\* C17: in every reachable state, stop() called twice leaves the session and
\* the engine as stop() called once does: not speaking, no active-utterance
\* reference, the engine cancelled; and stop() called when nothing is in
\* flight changes nothing that can be observed.
C17_StopIdempotent ==
    phase = "mounted" =>
        LET once == StopOf(SessionNow)
        IN  /\ StopOf(once) = once
            /\ ~once.isSpeaking
            /\ once.utteranceRef = 0
            /\ hasSynth => (once.queue = <<>> /\ ~once.engStarted)
            /\ NothingInFlight => Observable(once) = Observable(SessionNow)

\* C17 witness: stop() was called while the utterance of the first call was
\* in the engine, and the session and the engine are as stop() leaves them
C17_Witness ==
    /\ stopped
    /\ SessionNow = StopOf(SessionNow)
    /\ SpeakUtt(1) \in pendingErr
    /\ InFlight(1)

\* C18: in every reachable state in which the engine is speaking or has
\* queued the utterance of a speak() call, is-speaking is true and the
\* active-utterance reference is that utterance.
C18_SpeakingWhileEngineHolds ==
    \A c \in Calls :
        SpeakUtt(c) \in Range(queue) => (isSpeaking /\ utteranceRef = c)

\* a speak() call passes its checks in this step
SpeakPasses == ncalls' = ncalls + 1 /\ call'[ncalls'].st = "delay"

\* the continuation of call c builds its utterance in this step
Builds(c) == call[c].st = "delay" /\ call'[c].voices # call[c].voices

\* when the list a call took along is empty, its continuation reads the
\* platform's catalog, and with an empty catalog binds no voice and uses the
\* tag hi-IN
ReadsPlatformWhenEmpty ==
    \A c \in Calls :
        (call[c].st = "delay" /\ call'[c].st = "submitted"
         /\ call[c].voices = <<>>)
            => /\ call'[c].voices = platformVoices
               /\ platformVoices = <<>>
                    => (call'[c].voice = NoVoice /\ call'[c].lang = HI_IN)

\* C19: after a "voices changed" notification the cached voice list equals
\* the platform's current catalog, and a later speak() selects from that
\* current catalog; with no voice loaded yet selection reads the platform,
\* and with none there uses hi-IN without a bound voice.
C19_CacheIsCatalog ==
    [][/\ platformVoices' # platformVoices => availableVoices' = platformVoices'
       /\ SpeakPasses => call'[ncalls'].voices = platformVoices
       /\ ReadsPlatformWhenEmpty]_vars

\* C19, amended: a notification that reports at least one voice makes the
\* cached list equal to the platform's catalog, and one that reports no
\* voice leaves the cached list as it was; a later speak() takes the cached
\* list along; while the platform has voices the cached list is its catalog;
\* with an empty cached list selection reads the platform, and with none
\* there uses hi-IN without a bound voice.
C19_CacheFollowsLoadedCatalog ==
    /\ []((phase = "mounted" /\ hasSynth /\ Len(platformVoices) > 0)
            => availableVoices = platformVoices)
    /\ [][/\ platformVoices' # platformVoices
               => availableVoices' = (IF Len(platformVoices') > 0
                                      THEN platformVoices'
                                      ELSE availableVoices)
          /\ SpeakPasses => call'[ncalls'].voices = availableVoices
          /\ ReadsPlatformWhenEmpty]_vars

\* C19 witness: the platform reported an empty catalog after a loaded one,
\* and a speak() call made since then selected from the list kept
C19_Witness ==
    /\ platformVoices = <<>>
    /\ Len(availableVoices) > 0
    /\ call[1].st = "submitted"
    /\ call[1].voices = availableVoices
    /\ call[1].voice # NoVoice

\* C20: after the unmount the engine holds no utterance of a speak() call
\* (what it held was cancelled, and no call issued before the unmount hands
\* its utterance over afterwards), and no keep-alive timer is armed except
\* that of a cancelled utterance whose error event is still to be delivered.
C20_UnmountSilences ==
    phase = "unmounted" =>
        /\ \A c \in Calls : SpeakUtt(c) \notin Range(queue)
        /\ \A c \in timers : SpeakUtt(c) \in pendingErr

====
